---------------------------- MODULE Spec2Model ----------------------------
(***************************************************************************)
(* Model of the two headers of the repository:                             *)
(*   src/macros.hpp           EXPECTED_VOID, NOEXCEPT, NDEBUG              *)
(*   src/primitive_types.hpp  u8..u64, i8..i64, usize, ssize, ufast32,     *)
(*                            ifast32, f32, f64, f80                       *)
(* The build part (SpecBuild) is the preprocessor and the alias table of   *)
(* one translation unit.  The run part (Spec) is a program that invokes    *)
(* EXPECTED_VOID(expr), step by step through the lines of the macro.       *)
(***************************************************************************)
EXTENDS Integers, Sequences, FiniteSets

VARIABLES
  \* ---- build: one translation unit being preprocessed ----
  platform,        \* the target ABI the unit is compiled for
  macros,          \* the preprocessor's macro table: name -> replacement list
  included,        \* headers already processed (#pragma once)
  includeCount,    \* #include directives met, per header
  directives,      \* #define / #undef directives of the surrounding source
  types,           \* the alias table: alias -> the standard type it names
  \* ---- run: a program invoking EXPECTED_VOID(expr) ----
  pc,              \* position of control
  expr,            \* the argument of the invocation in progress
  expected,        \* the variable the macro declares (line 5)
  callerExpected,  \* a variable named `expected` in the caller's scope
  counter,         \* the side-effect counter every expr increments
  calls,           \* invocations begun
  resumed,         \* times control reached the statement after an invocation
  out,             \* the characters written to standard output
  exitStatus,      \* << >> while the process runs, <<status>> once it ended
  exitHooks,       \* cleanup hooks in order of registration
  hooksRun,        \* cleanup hooks in order of invocation
  autos,           \* automatic objects alive on the stack
  autosDestroyed,  \* destructors of automatic objects run so far
  pre              \* the observable state when the invocation began

buildVars == <<platform, macros, included, includeCount, directives, types>>
runVars == <<pc, expr, expected, callerExpected, counter, calls, resumed, out,
             exitStatus, exitHooks, hooksRun, autos, autosDestroyed, pre>>
vars == <<buildVars, runVars>>

(***************************************************************************)
(* Bounds of the model.                                                    *)
(***************************************************************************)
MaxIncludes == 2
MaxDirectives == 1
MaxCalls == 2
MaxHooks == 2
MaxAutos == 1
MaxCallerOutput == 1

(***************************************************************************)
(* Preprocessor: macros.hpp                                                *)
(***************************************************************************)
Undef == "<undefined>"

MacroNames == {"EXPECTED_VOID", "NOEXCEPT_ENABLED", "NOEXCEPT", "NDEBUG"}

\* The toggles the surrounding build may define or undefine.
BuildToggles == {"NOEXCEPT_ENABLED", "NDEBUG"}

\* Replacement lists a build gives a toggle: none (-DX= or #define X), 0, 1, 2.
ToggleValues == {"", "0", "1", "2"}

Defined(m, name) == m[name] # Undef

Define(m, name, body) == [m EXCEPT ![name] = body]

\* #define EXPECTED_VOID(expr) ({ ... })
EXPECTED_VOID_Directive(m) == Define(m, "EXPECTED_VOID", "({...})")

NOEXCEPT_Directive_Inverted(m) ==
  IF Defined(m, "NOEXCEPT_ENABLED")
  THEN Define(m, "NOEXCEPT", "noexcept")
  ELSE Define(m, "NOEXCEPT", "")

\* #ifndef NOEXCEPT_ENABLED / #define NOEXCEPT noexcept / #else / #define NOEXCEPT
NOEXCEPT_Directive(m) ==
  IF ~Defined(m, "NOEXCEPT_ENABLED")
  THEN Define(m, "NOEXCEPT", "noexcept")
  ELSE Define(m, "NOEXCEPT", "")

NDEBUG_Directive_Override(m) == Define(m, "NDEBUG", "1")

\* #ifndef NDEBUG / #define NDEBUG 1 / #endif
NDEBUG_Directive(m) ==
  IF ~Defined(m, "NDEBUG") THEN Define(m, "NDEBUG", "1") ELSE m

\* The header from its first line to its last.
ProcessMacrosHpp(m) ==
  NDEBUG_Directive(NOEXCEPT_Directive(EXPECTED_VOID_Directive(m)))

(***************************************************************************)
(* Alias table: primitive_types.hpp                                        *)
(***************************************************************************)
Platforms == {"ILP32_glibc", "LP64_glibc", "LP64_darwin_arm64", "LLP64_msvc"}

AliasNames == {"u8", "u16", "u32", "u64", "i8", "i16", "i32", "i64",
               "usize", "ssize", "ufast32", "ifast32", "f32", "f64", "f80"}

Undeclared == "<undeclared>"

\* <cstdint>: the exact-width types, the same on every platform that has them.
ExactLayout ==
  [ uint8_t  |-> [bits |-> 8,  signed |-> FALSE],
    uint16_t |-> [bits |-> 16, signed |-> FALSE],
    uint32_t |-> [bits |-> 32, signed |-> FALSE],
    uint64_t |-> [bits |-> 64, signed |-> FALSE],
    int8_t   |-> [bits |-> 8,  signed |-> TRUE],
    int16_t  |-> [bits |-> 16, signed |-> TRUE],
    int32_t  |-> [bits |-> 32, signed |-> TRUE],
    int64_t  |-> [bits |-> 64, signed |-> TRUE],
    float    |-> [bits |-> 32, signed |-> TRUE],
    double   |-> [bits |-> 64, signed |-> TRUE] ]

\* <cstddef>, <cstdint>: the types whose width the platform's ABI chooses.
PlatformLayout ==
  [ ILP32_glibc |->
      [ size_t        |-> [bits |-> 32, signed |-> FALSE],
        ptrdiff_t     |-> [bits |-> 32, signed |-> TRUE],
        uint_fast32_t |-> [bits |-> 32, signed |-> FALSE],
        int_fast32_t  |-> [bits |-> 32, signed |-> TRUE],
        long_double   |-> [bits |-> 96, signed |-> TRUE] ],
    LP64_glibc |->
      [ size_t        |-> [bits |-> 64, signed |-> FALSE],
        ptrdiff_t     |-> [bits |-> 64, signed |-> TRUE],
        uint_fast32_t |-> [bits |-> 64, signed |-> FALSE],
        int_fast32_t  |-> [bits |-> 64, signed |-> TRUE],
        long_double   |-> [bits |-> 128, signed |-> TRUE] ],
    LP64_darwin_arm64 |->
      [ size_t        |-> [bits |-> 64, signed |-> FALSE],
        ptrdiff_t     |-> [bits |-> 64, signed |-> TRUE],
        uint_fast32_t |-> [bits |-> 32, signed |-> FALSE],
        int_fast32_t  |-> [bits |-> 32, signed |-> TRUE],
        long_double   |-> [bits |-> 64, signed |-> TRUE] ],
    LLP64_msvc |->
      [ size_t        |-> [bits |-> 64, signed |-> FALSE],
        ptrdiff_t     |-> [bits |-> 64, signed |-> TRUE],
        uint_fast32_t |-> [bits |-> 32, signed |-> FALSE],
        int_fast32_t  |-> [bits |-> 32, signed |-> TRUE],
        long_double   |-> [bits |-> 64, signed |-> TRUE] ] ]

\* The representation of standard type t on platform p.
Layout(p, t) ==
  IF t \in DOMAIN ExactLayout THEN ExactLayout[t] ELSE PlatformLayout[p][t]

AliasTarget_U32Narrow ==
  [ u8 |-> "uint8_t", u16 |-> "uint16_t", u32 |-> "uint16_t", u64 |-> "uint64_t",
    i8 |-> "int8_t", i16 |-> "int16_t", i32 |-> "int32_t", i64 |-> "int64_t",
    usize |-> "size_t", ssize |-> "ptrdiff_t",
    ufast32 |-> "uint_fast32_t", ifast32 |-> "int_fast32_t",
    f32 |-> "float", f64 |-> "double", f80 |-> "long_double" ]

AliasTarget_SsizeInt32 ==
  [ u8 |-> "uint8_t", u16 |-> "uint16_t", u32 |-> "uint32_t", u64 |-> "uint64_t",
    i8 |-> "int8_t", i16 |-> "int16_t", i32 |-> "int32_t", i64 |-> "int64_t",
    usize |-> "size_t", ssize |-> "int32_t",
    ufast32 |-> "uint_fast32_t", ifast32 |-> "int_fast32_t",
    f32 |-> "float", f64 |-> "double", f80 |-> "long_double" ]

\* using <alias> = std::<type>;  (long_double stands for `long double`)
AliasTarget ==
  [ u8 |-> "uint8_t", u16 |-> "uint16_t", u32 |-> "uint32_t", u64 |-> "uint64_t",
    i8 |-> "int8_t", i16 |-> "int16_t", i32 |-> "int32_t", i64 |-> "int64_t",
    usize |-> "size_t", ssize |-> "ptrdiff_t",
    ufast32 |-> "uint_fast32_t", ifast32 |-> "int_fast32_t",
    f32 |-> "float", f64 |-> "double", f80 |-> "long_double" ]

\* The header from its first line to its last.
ProcessPrimitiveTypesHpp(t) == [a \in AliasNames |-> AliasTarget[a]]

\* The representation an alias has, once declared.
AliasLayout(a) == Layout(platform, types[a])

(***************************************************************************)
(* Build actions                                                           *)
(***************************************************************************)
Headers == {"macros.hpp", "primitive_types.hpp"}

BuildInit ==
  /\ platform \in Platforms
  /\ macros \in {m \in [MacroNames -> ToggleValues \cup {Undef}] :
                   /\ m["EXPECTED_VOID"] = Undef
                   /\ m["NOEXCEPT"] = Undef}
  /\ included = {}
  /\ includeCount = [h \in Headers |-> 0]
  /\ directives = 0
  /\ types = [a \in AliasNames |-> Undeclared]

\* #include "macros.hpp": skipped by #pragma once when already processed.
IncludeMacrosHpp ==
  /\ includeCount["macros.hpp"] < MaxIncludes
  /\ includeCount' = [includeCount EXCEPT !["macros.hpp"] = @ + 1]
  /\ IF "macros.hpp" \in included
     THEN UNCHANGED <<macros, included>>
     ELSE /\ macros' = ProcessMacrosHpp(macros)
          /\ included' = included \cup {"macros.hpp"}
  /\ UNCHANGED <<platform, directives, types>>
  /\ UNCHANGED runVars

\* #include "primitive_types.hpp": skipped by #pragma once when already processed.
IncludePrimitiveTypesHpp ==
  /\ includeCount["primitive_types.hpp"] < MaxIncludes
  /\ includeCount' = [includeCount EXCEPT !["primitive_types.hpp"] = @ + 1]
  /\ IF "primitive_types.hpp" \in included
     THEN UNCHANGED <<types, included>>
     ELSE /\ types' = ProcessPrimitiveTypesHpp(types)
          /\ included' = included \cup {"primitive_types.hpp"}
  /\ UNCHANGED <<platform, directives, macros>>
  /\ UNCHANGED runVars

\* A #define of a build toggle in the source around the includes.
SurroundingDefine ==
  /\ directives < MaxDirectives
  /\ \E name \in BuildToggles, v \in ToggleValues :
       /\ ~Defined(macros, name)
       /\ macros' = Define(macros, name, v)
  /\ directives' = directives + 1
  /\ UNCHANGED <<platform, included, includeCount, types>>
  /\ UNCHANGED runVars

\* An #undef of a build toggle in the source around the includes.
SurroundingUndef ==
  /\ directives < MaxDirectives
  /\ \E name \in BuildToggles :
       /\ Defined(macros, name)
       /\ macros' = Define(macros, name, Undef)
  /\ directives' = directives + 1
  /\ UNCHANGED <<platform, included, includeCount, types>>
  /\ UNCHANGED runVars

SpecBuildNext ==
  \/ IncludeMacrosHpp
  \/ IncludePrimitiveTypesHpp
  \/ SurroundingDefine
  \/ SurroundingUndef


(***************************************************************************)
(* Run: values                                                             *)
(***************************************************************************)
\* Text is a sequence of characters.
DiskFull == <<"d", "i", "s", "k", " ", "f", "u", "l", "l">>

Braces == <<"{", "}">>

Messages == {DiskFull, <<>>, Braces}

\* std::expected<void, std::string>: success, or a failure carrying a message.
Success == [has_value |-> TRUE, error |-> <<>>]

Failure(m) == [has_value |-> FALSE, error |-> m]

Results == {Success} \cup {Failure(m) : m \in Messages}

\* A variable: out of scope, declared but not yet initialised, or holding a value.
NoObject == [state |-> "none", value |-> Success]

Indeterminate == [state |-> "indeterminate", value |-> Success]

Obj(r) == [state |-> "init", value |-> r]

\* An argument expression.  Every one increments the counter when evaluated;
\* its operand is a call yielding a result, or the identifier `expected`.
CallExpr(r) == [operand |-> "call", result |-> r]

NameExpr == [operand |-> "expected", result |-> Success]

Exprs == {CallExpr(r) : r \in Results} \cup {NameExpr}

\* What reading an uninitialised std::expected<void, std::string> can produce:
\* any bit pattern read as a value, or a fault while copying the string.
UninitialisedRead ==
  {[crash |-> FALSE, value |-> r] : r \in Results \cup {Failure(<<"?">>)}}
    \cup {[crash |-> TRUE, value |-> Success]}

\* The outcomes of evaluating e at a place where the identifier `expected`
\* denotes the variable `inner`.
Evaluate(e, inner) ==
  IF e.operand = "call"
  THEN {[crash |-> FALSE, value |-> e.result]}
  ELSE IF inner.state = "init"
       THEN {[crash |-> FALSE, value |-> inner.value]}
       ELSE UninitialisedRead

\* std::format: "{}" is replaced by the argument, "{{" and "}}" are escapes.
RECURSIVE Format(_, _)
Format(fmt, arg) ==
  IF fmt = <<>> THEN <<>>
  ELSE IF Len(fmt) >= 2 /\ fmt[1] = "{" /\ fmt[2] = "}"
       THEN arg \o Format(SubSeq(fmt, 3, Len(fmt)), arg)
  ELSE IF Len(fmt) >= 2 /\ fmt[1] = fmt[2] /\ fmt[1] \in {"{", "}"}
       THEN <<fmt[1]>> \o Format(SubSeq(fmt, 3, Len(fmt)), arg)
  ELSE <<fmt[1]>> \o Format(Tail(fmt), arg)

\* std::println(fmt, arg): the formatted text and a newline.
Println(fmt, arg) == Format(fmt, arg) \o <<"\n">>

\* The argument of std::exit in the macro.
EXIT_STATUS == 1

HookKinds == {"atexit", "static_dtor"}

NextHook_RegistrationOrder(hooks, run) == hooks[Len(run) + 1]

\* std::exit calls the cleanup hooks in the reverse order of their registration.
NextHook(hooks, run) == hooks[Len(hooks) - Len(run)]

Snapshot ==
  [counter |-> counter, out |-> out, exitHooks |-> exitHooks, autos |-> autos,
   autosDestroyed |-> autosDestroyed, callerExpected |-> callerExpected,
   resumed |-> resumed]

(***************************************************************************)
(* Run: the caller                                                         *)
(***************************************************************************)
RunInit ==
  /\ pc = "caller"
  /\ expr = NameExpr
  /\ expected = NoObject
  /\ callerExpected = NoObject
  /\ counter = 0
  /\ calls = 0
  /\ resumed = 0
  /\ out = <<>>
  /\ exitStatus = <<>>
  /\ exitHooks = <<>>
  /\ hooksRun = <<>>
  /\ autos = 0
  /\ autosDestroyed = 0
  /\ pre = [counter |-> 0, out |-> <<>>, exitHooks |-> <<>>, autos |-> 0,
            autosDestroyed |-> 0, callerExpected |-> NoObject, resumed |-> 0]

\* The caller declares its own variable named `expected`.
CallerDeclaresExpected ==
  /\ pc = "caller"
  /\ callerExpected.state = "none"
  /\ \E r \in Results : callerExpected' = Obj(r)
  /\ UNCHANGED <<pc, expr, expected, counter, calls, resumed, out, exitStatus,
                 exitHooks, hooksRun, autos, autosDestroyed, pre>>
  /\ UNCHANGED buildVars

\* std::atexit, or the construction of an object of static storage duration.
CallerRegistersHook ==
  /\ pc = "caller"
  /\ Len(exitHooks) < MaxHooks
  /\ \E k \in HookKinds : exitHooks' = Append(exitHooks, k)
  /\ UNCHANGED <<pc, expr, expected, callerExpected, counter, calls, resumed, out,
                 exitStatus, hooksRun, autos, autosDestroyed, pre>>
  /\ UNCHANGED buildVars

\* The caller constructs an automatic object that has a destructor.
CallerConstructsAuto ==
  /\ pc = "caller"
  /\ autos + autosDestroyed < MaxAutos
  /\ autos' = autos + 1
  /\ UNCHANGED <<pc, expr, expected, callerExpected, counter, calls, resumed, out,
                 exitStatus, exitHooks, hooksRun, autosDestroyed, pre>>
  /\ UNCHANGED buildVars

\* An automatic object of the caller goes out of scope.
CallerLeavesScope ==
  /\ pc = "caller"
  /\ autos > 0
  /\ autos' = autos - 1
  /\ autosDestroyed' = autosDestroyed + 1
  /\ UNCHANGED <<pc, expr, expected, callerExpected, counter, calls, resumed, out,
                 exitStatus, exitHooks, hooksRun, pre>>
  /\ UNCHANGED buildVars

\* Output of the caller's own.
CallerWrites ==
  /\ pc = "caller"
  /\ Len(out) < MaxCallerOutput
  /\ out' = Append(out, "x")
  /\ UNCHANGED <<pc, expr, expected, callerExpected, counter, calls, resumed,
                 exitStatus, exitHooks, hooksRun, autos, autosDestroyed, pre>>
  /\ UNCHANGED buildVars

(***************************************************************************)
(* Run: EXPECTED_VOID(expr), line by line                                  *)
(***************************************************************************)
\* "({": control enters the statement expression.  The argument is an
\* expression that is valid in the caller's scope.
Invoke ==
  /\ pc = "caller"
  /\ calls < MaxCalls
  /\ \E e \in Exprs :
       /\ e.operand = "expected" => callerExpected.state = "init"
       /\ expr' = e
  /\ calls' = calls + 1
  /\ pre' = Snapshot
  /\ pc' = "declare"
  /\ UNCHANGED <<expected, callerExpected, counter, resumed, out, exitStatus,
                 exitHooks, hooksRun, autos, autosDestroyed>>
  /\ UNCHANGED buildVars

StoreResult_EvaluatesTwice ==
  /\ pc = "declare"
  /\ counter' = counter + 2
  /\ \E o \in Evaluate(expr, Indeterminate) :
       IF o.crash
       THEN /\ pc' = "crashed"
            /\ expected' = Indeterminate
       ELSE /\ pc' = "test"
            /\ expected' = Obj(o.value)
  /\ UNCHANGED <<expr, callerExpected, calls, resumed, out, exitStatus,
                 exitHooks, hooksRun, autos, autosDestroyed, pre>>
  /\ UNCHANGED buildVars

\* std::expected<void, std::string> expected = (expr);
\* The name `expected` is in scope from its declarator on, so inside expr it
\* denotes the variable being initialised.
StoreResult ==
  /\ pc = "declare"
  /\ counter' = counter + 1
  /\ \E o \in Evaluate(expr, Indeterminate) :
       IF o.crash
       THEN /\ pc' = "crashed"
            /\ expected' = Indeterminate
       ELSE /\ pc' = "test"
            /\ expected' = Obj(o.value)
  /\ UNCHANGED <<expr, callerExpected, calls, resumed, out, exitStatus,
                 exitHooks, hooksRun, autos, autosDestroyed, pre>>
  /\ UNCHANGED buildVars

TestResult_Inverted ==
  /\ pc = "test"
  /\ pc' = IF ~expected.value.has_value THEN "end" ELSE "print"
  /\ UNCHANGED <<expr, expected, callerExpected, counter, calls, resumed, out,
                 exitStatus, exitHooks, hooksRun, autos, autosDestroyed, pre>>
  /\ UNCHANGED buildVars

\* if (!expected) {
TestResult ==
  /\ pc = "test"
  /\ pc' = IF expected.value.has_value THEN "end" ELSE "print"
  /\ UNCHANGED <<expr, expected, callerExpected, counter, calls, resumed, out,
                 exitStatus, exitHooks, hooksRun, autos, autosDestroyed, pre>>
  /\ UNCHANGED buildVars

\* std::println("{}", expected.error());
\* It throws std::system_error when the write to the stream fails.
PrintError ==
  /\ pc = "print"
  /\ \E written \in BOOLEAN :
       IF written
       THEN /\ out' = out \o Println(Braces, expected.value.error)
            /\ pc' = "exit"
       ELSE /\ out' = out
            /\ pc' = "thrown"
  /\ UNCHANGED <<expr, expected, callerExpected, counter, calls, resumed,
                 exitStatus, exitHooks, hooksRun, autos, autosDestroyed, pre>>
  /\ UNCHANGED buildVars

\* std::exit(1), first part: the cleanup hooks run, one at a time.
std_exit_RunsHook ==
  /\ pc = "exit"
  /\ Len(hooksRun) < Len(exitHooks)
  /\ hooksRun' = Append(hooksRun, NextHook(exitHooks, hooksRun))
  /\ UNCHANGED <<pc, expr, expected, callerExpected, counter, calls, resumed, out,
                 exitStatus, exitHooks, autos, autosDestroyed, pre>>
  /\ UNCHANGED buildVars

\* std::exit(1), second part: control returns to the host environment.
\* Automatic objects are not destroyed.
std_exit_Terminates ==
  /\ pc = "exit"
  /\ Len(hooksRun) = Len(exitHooks)
  /\ exitStatus' = <<EXIT_STATUS>>
  /\ pc' = "terminated"
  /\ UNCHANGED <<expr, expected, callerExpected, counter, calls, resumed, out,
                 exitHooks, hooksRun, autos, autosDestroyed, pre>>
  /\ UNCHANGED buildVars

\* "})": the macro's variable goes out of scope and the next statement runs.
EndStatementExpr ==
  /\ pc = "end"
  /\ expected' = NoObject
  /\ resumed' = resumed + 1
  /\ pc' = "caller"
  /\ UNCHANGED <<expr, callerExpected, counter, calls, out, exitStatus,
                 exitHooks, hooksRun, autos, autosDestroyed, pre>>
  /\ UNCHANGED buildVars

Next ==
  \/ CallerDeclaresExpected
  \/ CallerRegistersHook
  \/ CallerConstructsAuto
  \/ CallerLeavesScope
  \/ CallerWrites
  \/ Invoke
  \/ StoreResult
  \/ TestResult
  \/ PrintError
  \/ std_exit_RunsHook
  \/ std_exit_Terminates
  \/ EndStatementExpr

(***************************************************************************)
(* Specifications                                                          *)
(***************************************************************************)
\* The unit as built with no toggle set and both headers included.
Built ==
  /\ platform = "LP64_glibc"
  /\ macros = ProcessMacrosHpp([n \in MacroNames |-> Undef])
  /\ included = Headers
  /\ includeCount = [h \in Headers |-> 1]
  /\ directives = 0
  /\ types = ProcessPrimitiveTypesHpp([a \in AliasNames |-> Undeclared])

Init == Built /\ RunInit

Spec == Init /\ [][Next]_vars

SpecBuildInit == BuildInit /\ RunInit

SpecBuild == SpecBuildInit /\ [][SpecBuildNext]_vars

(***************************************************************************)
(* Properties                                                              *)
(***************************************************************************)
\* Control is inside, or has left through the end of, an invocation whose
\* argument has been evaluated.
Evaluated == calls > 0 /\ pc # "declare"

\* The macro's variable holds the result of the argument.
Stored == expected.state = "init"

Reverse(s) == [i \in 1..Len(s) |-> s[Len(s) + 1 - i]]

\* C1: whether the argument yields success or failure, it is evaluated
\* exactly once per invocation: once the argument has been evaluated the
\* counter is exactly 1 above its value when the invocation began, never 0 and
\* never 2 or more above it, up to the end of the process; before the
\* evaluation it is not yet changed.
C1_EvaluatedExactlyOnce ==
  /\ Evaluated => counter = pre.counter + 1
  /\ pc = "declare" => counter = pre.counter
  /\ counter = IF pc = "declare" THEN calls - 1 ELSE calls

\* C1 witness: a second invocation, after a successful first one, has ended
\* the process on a failure.
C1_Witness ==
  /\ pc = "terminated"
  /\ calls = 2
  /\ resumed = 1
  /\ counter = 2
  /\ ~expected.value.has_value

\* C2: a failing operation with message m makes the macro first write exactly
\* m and a newline to standard output and then end the process with a non-zero
\* status, and no statement after the invocation runs.
C2_FailurePrintsThenExits ==
  /\ (Stored /\ ~expected.value.has_value /\ pc \notin {"test", "print", "exit"})
       => /\ pc = "terminated"
          /\ out = pre.out \o expected.value.error \o <<"\n">>
          /\ exitStatus # <<>>
          /\ exitStatus[1] # 0
          /\ resumed = pre.resumed
  /\ pc = "exit"
       => /\ out = pre.out \o expected.value.error \o <<"\n">>
          /\ exitStatus = <<>>

\* What does hold of C2's case: whenever the process has ended through
\* std::exit, the message and a newline were written, the status is 1 and no
\* later statement ran.
C2_HoldsOnceTerminated ==
  pc \in {"exit", "terminated"}
    => /\ Stored /\ ~expected.value.has_value
       /\ out = pre.out \o expected.value.error \o <<"\n">>
       /\ resumed = pre.resumed
       /\ exitStatus = IF pc = "terminated" THEN <<1>> ELSE <<>>

C5_UtilityCannotFail ==
  expr.operand = "call" => pc \notin {"thrown", "crashed"}

\* C6: NOEXCEPT is resolved by the presence of NOEXCEPT_ENABLED alone when the
\* header is processed: noexcept when the toggle is not defined, nothing when it
\* is defined with any value or none; NOEXCEPT is defined by the header only.
C6_NOEXCEPT_ResolvedByToggle ==
  /\ []("macros.hpp" \in included <=> macros["NOEXCEPT"] # Undef)
  /\ [][("macros.hpp" \notin included /\ "macros.hpp" \in included')
          => macros'["NOEXCEPT"] =
               IF macros["NOEXCEPT_ENABLED"] = Undef THEN "noexcept" ELSE ""]_vars
  /\ [][macros["NOEXCEPT"] # Undef => macros'["NOEXCEPT"] = macros["NOEXCEPT"]]_vars

\* C6 witness: the header was processed with the toggle defined as 0 and
\* NOEXCEPT is empty.
C6_Witness ==
  /\ "macros.hpp" \in included
  /\ directives = 0
  /\ macros["NOEXCEPT_ENABLED"] = "0"
  /\ macros["NOEXCEPT"] = ""

\* C7: processing macros.hpp sets NDEBUG only if it is not set: a value given
\* beforehand is kept, an undefined NDEBUG becomes 1, and processing the header
\* a second time changes no macro.
C7_NDEBUG_SetOnlyIfUnset ==
  /\ [][("macros.hpp" \notin included /\ "macros.hpp" \in included')
          => macros'["NDEBUG"] =
               IF macros["NDEBUG"] = Undef THEN "1" ELSE macros["NDEBUG"]]_vars
  /\ [][("macros.hpp" \in included
           /\ includeCount'["macros.hpp"] = includeCount["macros.hpp"] + 1)
          => macros' = macros]_vars

\* C7 witness: the header was met twice in a build that had defined NDEBUG
\* as 0, and NDEBUG is still 0.
C7_Witness ==
  /\ "macros.hpp" \in included
  /\ includeCount["macros.hpp"] = 2
  /\ directives = 0
  /\ macros["NDEBUG"] = "0"

\* The widths and signedness the names of the integer aliases document.
DocumentedExact ==
  [ u8 |-> [bits |-> 8, signed |-> FALSE], u16 |-> [bits |-> 16, signed |-> FALSE],
    u32 |-> [bits |-> 32, signed |-> FALSE], u64 |-> [bits |-> 64, signed |-> FALSE],
    i8 |-> [bits |-> 8, signed |-> TRUE], i16 |-> [bits |-> 16, signed |-> TRUE],
    i32 |-> [bits |-> 32, signed |-> TRUE], i64 |-> [bits |-> 64, signed |-> TRUE] ]

\* C8: on every platform each integer alias has the width and signedness its
\* name documents: u8..u64 unsigned with exactly 8..64 bits, i8..i64 signed
\* with exactly 8..64 bits, ufast32 unsigned and ifast32 signed with at least
\* 32 bits.
C8_AliasWidthsMatchNames ==
  "primitive_types.hpp" \in included
    => /\ \A a \in DOMAIN DocumentedExact : AliasLayout(a) = DocumentedExact[a]
       /\ AliasLayout("ufast32").bits >= 32
       /\ ~AliasLayout("ufast32").signed
       /\ AliasLayout("ifast32").bits >= 32
       /\ AliasLayout("ifast32").signed

\* C8 witness: the aliases are declared on a platform whose fast types are
\* wider than 32 bits.
C8_Witness ==
  /\ "primitive_types.hpp" \in included
  /\ AliasLayout("u32").bits = 32
  /\ AliasLayout("ufast32").bits = 64
  /\ AliasLayout("ifast32").bits = 64

\* C9: on every platform usize and ssize have the same width, usize unsigned
\* and ssize signed.
C9_SizeTypesSameWidth ==
  "primitive_types.hpp" \in included
    => /\ AliasLayout("usize").bits = AliasLayout("ssize").bits
       /\ ~AliasLayout("usize").signed
       /\ AliasLayout("ssize").signed

\* C9 witness: the aliases are declared on a 64-bit platform, where both size
\* types have 64 bits and i32 has not.
C9_Witness ==
  /\ "primitive_types.hpp" \in included
  /\ platform = "LLP64_msvc"
  /\ AliasLayout("usize").bits = 64
  /\ AliasLayout("ssize").bits = 64

\* The value the argument has in the caller's scope, where the identifier
\* `expected` denotes the caller's variable.
ValueInCallerScope ==
  IF expr.operand = "call" THEN expr.result ELSE pre.callerExpected.value

\* C10: the outcome depends only on the value the argument has in the caller's
\* scope; the identifier `expected` in the argument denotes the caller's
\* variable, so what the macro stores and tests is that value.
C10_ArgumentReadInCallerScope ==
  (Evaluated /\ pc # "caller") => expected = Obj(ValueInCallerScope)

=============================================================================
